---- MODULE Spec2Model ----
(***************************************************************************)
(* Model of streamlit_app.py: the retrying HTTP status check               *)
(* (check_http_status), the chunked batch runner (process_batch_smart),    *)
(* the caller's deduplication (Tab 1) and the single-URL test (Tab 2).     *)
(***************************************************************************)
EXTENDS Integers, Sequences, FiniteSets, TLC

VARIABLES
    raw,              \* df['extracted_url']: the extracted column (Tab 1)
    urls,             \* the list handed to the check (unique_urls / [url_input])
    max_concurrency,  \* the semaphore's capacity K
    semaphore,        \* asyncio.Semaphore: its internal counter (free slots)
    endpoint,         \* Tab 2 test double: the answers of the endpoint, by attempt
    pc,               \* position of the controller coroutine
    i,                \* process_batch_smart: start index of the current chunk
    tasks,            \* chunk_tasks: the check_http_status coroutines of the chunk
    results,          \* process_batch_smart: results
    error_count_410,  \* process_batch_smart: error_count_410
    alerts,           \* what was written into error_container, in order
    progress,         \* the progress updates (current_count, total, 410 count)
    pauses,           \* number of inter-chunk sleeps taken
    metrics           \* Tab 1: the five tallies of the dashboard, once shown

vars == <<raw, urls, max_concurrency, semaphore, endpoint, pc, i, tasks,
          results, error_count_410, alerts, progress, pauses, metrics>>

-----------------------------------------------------------------------------
(* Bounds of the model.                                                    *)

\* longest extracted column
MaxRaw == 3
\* largest concurrency setting; the runs take the smallest, 1, and the largest
MaxK == 2
\* chunk_size of process_batch_smart; the source sets 50, the model scales
\* it down so that several chunks fit in MaxRaw URLs
chunk_size == 2

\* retries of check_http_status
retries == 3

-----------------------------------------------------------------------------
(* Values of the URL column.  A Python value is a record: its type and,    *)
(* for a string, its characters.                                           *)

Str(chars) == [t |-> "str", s |-> chars]
PyNone == [t |-> "none", s |-> <<>>]
PyInt42 == [t |-> "int", s |-> <<"4", "2">>]

UrlA == Str(<<"h", "t", "t", "p", ":", "/", "/", "a">>)
UrlB == Str(<<"h", "t", "t", "p", "s", ":", "/", "/", "b">>)
UrlSpaceA == Str(<<" ", "h", "t", "t", "p", ":", "/", "/", "a">>)
UrlHttpx == Str(<<"h", "t", "t", "p", "x">>)
UrlFtp == Str(<<"f", "t", "p", ":", "/", "/", "c">>)
UrlEmpty == Str(<<>>)

\* what extract_url can put into the column
ColumnValues == {UrlA, UrlB, UrlFtp, UrlEmpty, PyInt42, PyNone}
\* what st.text_input can return
TextInputs == {UrlA, UrlB, UrlSpaceA, UrlHttpx, UrlFtp, UrlEmpty}

\* Python truth value of a column value
Truthy(u) == /\ u.t /= "none"
             /\ u.s /= <<>>
             /\ ~(u.t = "int" /\ u.s = <<"0">>)

\* str.strip on the characters of a string
RECURSIVE lstrip(_)
lstrip(s) == IF s /= <<>> /\ Head(s) = " " THEN lstrip(Tail(s)) ELSE s

RECURSIVE rstrip(_)
rstrip(s) ==
    IF s /= <<>> /\ s[Len(s)] = " " THEN rstrip(SubSeq(s, 1, Len(s) - 1)) ELSE s

strip(s) == rstrip(lstrip(s))

\* the prefix test applied to the stripped string: url.strip().startswith
startswith_stripped(u, prefix) ==
    /\ Len(strip(u.s)) >= Len(prefix)
    /\ SubSeq(strip(u.s), 1, Len(prefix)) = prefix

\* str.startswith
startswith(u, prefix) ==
    /\ Len(u.s) >= Len(prefix)
    /\ SubSeq(u.s, 1, Len(prefix)) = prefix

\* the guard without its prefix test
IsInvalidUrlNoPrefix(u) ==
    \/ ~Truthy(u)
    \/ u.t /= "str"

\* line 28: not url or not isinstance(url, str) or not url.startswith('http')
IsInvalidUrl(u) ==
    \/ ~Truthy(u)
    \/ u.t /= "str"
    \/ ~startswith(u, <<"h", "t", "t", "p">>)

-----------------------------------------------------------------------------
(* Outcomes of one session.head attempt.                                   *)

Statuses == {200, 206, 403, 404, 408, 410, 429, 500, 502, 503, 504}

reason_phrase(code) ==
    CASE code = 200 -> "OK"
      [] code = 206 -> "Partial Content"
      [] code = 403 -> "Forbidden"
      [] code = 404 -> "Not Found"
      [] code = 408 -> "Request Timeout"
      [] code = 410 -> "Gone"
      [] code = 429 -> "Too Many Requests"
      [] code = 500 -> "Internal Server Error"
      [] code = 502 -> "Bad Gateway"
      [] code = 503 -> "Service Unavailable"
      [] code = 504 -> "Gateway Timeout"
      [] OTHER -> "Unknown"

Response(code) == [kind |-> "response", code |-> code, reason |-> reason_phrase(code)]
\* asyncio.TimeoutError, aiohttp.ClientError, any other Exception
TimeoutFault == [kind |-> "TimeoutError", code |-> 0, reason |-> "timed out"]
ClientFault == [kind |-> "ClientError", code |-> 0, reason |-> "cannot connect"]
OtherFault == [kind |-> "Exception", code |-> 0, reason |-> "unexpected"]

Outcomes == {Response(c) : c \in Statuses} \cup {TimeoutFault, ClientFault, OtherFault}

-----------------------------------------------------------------------------
(* check_http_status: the pure parts.                                      *)

Record(u, code, status, reason) ==
    [url |-> u, code |-> code, status |-> status, reason |-> reason]

\* a status string: its icon, the code it shows (0 if none), its text
StatusText(icon, code, text) == [icon |-> icon, code |-> code, text |-> text]

\* line 29
InvalidResult(u) ==
    Record(u, 0, StatusText("warning", 0, "Invalid URL"), "Malformed URL")

\* the retry test without its attempt limit
RetryStatusUnbounded(code, attempt) == code \in {504, 429, 503}

\* a retry test that takes every 5xx for transient
RetryStatusAny5xx(code, attempt) == code >= 500 /\ attempt < retries - 1

\* line 41: code in [504, 429, 503] and attempt < retries - 1
RetryStatus(code, attempt) == code \in {504, 429, 503} /\ attempt < retries - 1

\* a backoff that does not grow
wait_time_flat(attempt) == 2

\* line 42
wait_time(attempt) == (attempt + 1) * 2

\* the classification without its 403 branch
status_icon_no403(code, reason) ==
    IF code = 200 THEN StatusText("green", 200, "OK")
    ELSE IF code = 404 THEN StatusText("red", 404, "Not Found")
    ELSE IF code = 410 THEN StatusText("house", 410, "Gone")
    ELSE IF code >= 500 THEN StatusText("fire", code, "Server Error")
    ELSE StatusText("white", code, reason)

\* the classification with "code > 500" for the server errors
status_icon_gt500(code, reason) ==
    IF code = 200 THEN StatusText("green", 200, "OK")
    ELSE IF code = 404 THEN StatusText("red", 404, "Not Found")
    ELSE IF code = 410 THEN StatusText("house", 410, "Gone")
    ELSE IF code = 403 THEN StatusText("orange", 403, "Forbidden")
    ELSE IF code > 500 THEN StatusText("fire", code, "Server Error")
    ELSE StatusText("white", code, reason)

\* lines 47-58
status_icon(code, reason) ==
    IF code = 200 THEN StatusText("green", 200, "OK")
    ELSE IF code = 404 THEN StatusText("red", 404, "Not Found")
    ELSE IF code = 410 THEN StatusText("house", 410, "Gone")
    ELSE IF code = 403 THEN StatusText("orange", 403, "Forbidden")
    ELSE IF code >= 500 THEN StatusText("fire", code, "Server Error")
    ELSE StatusText("white", code, reason)

\* lines 60-65
ResponseResult(u, code, reason) == Record(u, code, status_icon(code, reason), reason)

\* a fault handler without its attempt limit
RetryFaultAlways(attempt) == TRUE

\* a fault handler that never retries
RetryFaultNever(attempt) == FALSE

\* line 68
RetryFault(attempt) == attempt < retries - 1

\* a fault backoff that grows like the status backoff
fault_wait_time_linear(attempt) == (attempt + 1) * 2

\* line 69
fault_wait_time(attempt) == 2

\* line 71
ConnectionErrorResult(u, e) ==
    Record(u, 0, StatusText("cross", 0, "Connection Error"), e)

\* a generic-error record that reuses the server-error status
ErrorResultAsServerError(u, e) ==
    Record(u, 0, StatusText("fire", 0, "Server Error"), e)

\* line 73
ErrorResult(u, e) == Record(u, 0, StatusText("cross", 0, "Error"), e)

\* lines 67-71 alone, without the generic clause of lines 72-73
ExceptClauseTransportOnly(kind) ==
    IF kind \in {"TimeoutError", "ClientError"} THEN "transport" ELSE "none"

\* which except clause of lines 67-73 takes an exception of this kind
ExceptClause(kind) ==
    IF kind \in {"TimeoutError", "ClientError"} THEN "transport"
    ELSE IF kind = "Exception" THEN "generic"
    ELSE "none"

-----------------------------------------------------------------------------
(* asyncio.Semaphore.                                                      *)

\* a semaphore that lets every caller in
CanAcquireAlways(value) == TRUE

\* acquire() returns at once only while the counter is positive
CanAcquire(value) == value > 0
Acquired(value) == value - 1
\* an exit that keeps the slot
ReleasedNever(value) == value

\* release(), run by the exit of "async with semaphore"
Released(value) == value + 1

-----------------------------------------------------------------------------
(* The coroutines of a chunk.                                              *)

NewTask(u) ==
    [url |-> u, pc |-> "new", attempt |-> 0, requests |-> 0,
     slept |-> <<>>, result |-> <<>>]

TaskIds == DOMAIN tasks

\* the task returns rec, leaving "async with semaphore" if it was inside
Returns(t, rec, inside) ==
    /\ tasks' = [tasks EXCEPT ![t].pc = "done", ![t].result = <<rec>>]
    /\ semaphore' = IF inside THEN Released(semaphore) ELSE semaphore

\* the task suspends in asyncio.sleep(delay) and will continue the loop
Sleeps(t, delay) ==
    /\ tasks' = [tasks EXCEPT ![t].pc = "sleep",
                              ![t].slept = Append(@, delay)]
    /\ semaphore' = semaphore

\* the answers the environment may give to the pending attempt of task t
Offered(t) ==
    IF endpoint = <<>> THEN Outcomes ELSE {endpoint[tasks[t].attempt + 1]}

\* lines 28-29: the guard returns before the semaphore is touched
RejectInvalid(t) ==
    /\ tasks[t].pc = "new"
    /\ IsInvalidUrl(tasks[t].url)
    /\ Returns(t, InvalidResult(tasks[t].url), FALSE)
    /\ UNCHANGED <<raw, urls, max_concurrency, endpoint, pc, i, results,
                   error_count_410, alerts, progress, pauses, metrics>>

\* lines 32-37: enter the semaphore and issue the first HEAD request
Enter(t) ==
    /\ tasks[t].pc = "new"
    /\ ~IsInvalidUrl(tasks[t].url)
    /\ CanAcquire(semaphore)
    /\ semaphore' = Acquired(semaphore)
    /\ tasks' = [tasks EXCEPT ![t].pc = "request", ![t].attempt = 0,
                              ![t].requests = @ + 1]
    /\ UNCHANGED <<raw, urls, max_concurrency, endpoint, pc, i, results,
                   error_count_410, alerts, progress, pauses, metrics>>

\* lines 37-73: the attempt ends with outcome o
Handle(t, o) ==
    LET u == tasks[t].url
        attempt == tasks[t].attempt
    IN  IF o.kind = "response"
        THEN IF RetryStatus(o.code, attempt)
             THEN Sleeps(t, wait_time(attempt))
             ELSE Returns(t, ResponseResult(u, o.code, o.reason), TRUE)
        ELSE IF ExceptClause(o.kind) = "transport"
        THEN IF RetryFault(attempt)
             THEN Sleeps(t, fault_wait_time(attempt))
             ELSE Returns(t, ConnectionErrorResult(u, o.reason), TRUE)
        ELSE IF ExceptClause(o.kind) = "generic"
        THEN Returns(t, ErrorResult(u, o.reason), TRUE)
        ELSE \* the exception leaves the coroutine; "async with" still releases
             /\ tasks' = [tasks EXCEPT ![t].pc = "raised"]
             /\ semaphore' = Released(semaphore)

Respond(t) ==
    /\ tasks[t].pc = "request"
    /\ \E o \in Offered(t) : Handle(t, o)
    /\ UNCHANGED <<raw, urls, max_concurrency, endpoint, pc, i, results,
                   error_count_410, alerts, progress, pauses, metrics>>

\* lines 34, 43-44, 69-70: the sleep ends, "continue" takes the next attempt;
\* a loop that runs out of attempts leaves the function without a return
Wake(t) ==
    /\ tasks[t].pc = "sleep"
    /\ IF tasks[t].attempt + 1 < retries
       THEN /\ tasks' = [tasks EXCEPT ![t].pc = "request",
                                      ![t].attempt = @ + 1,
                                      ![t].requests = @ + 1]
            /\ semaphore' = semaphore
       ELSE /\ tasks' = [tasks EXCEPT ![t].pc = "done"]
            /\ semaphore' = Released(semaphore)
    /\ UNCHANGED <<raw, urls, max_concurrency, endpoint, pc, i, results,
                   error_count_410, alerts, progress, pauses, metrics>>

-----------------------------------------------------------------------------
(* Tab 1: deduplication and process_batch_smart.                           *)

RECURSIVE dropna(_)
dropna(s) ==
    IF s = <<>> THEN <<>>
    ELSE IF Head(s) = PyNone THEN dropna(Tail(s))
    ELSE <<Head(s)>> \o dropna(Tail(s))

Elems(s) == {s[k] : k \in DOMAIN s}

\* pandas unique(): the first occurrences, in order of appearance
RECURSIVE unique(_)
unique(s) ==
    IF s = <<>> THEN <<>>
    ELSE LET front == unique(SubSeq(s, 1, Len(s) - 1))
             last == s[Len(s)]
         IN  IF last \in Elems(front) THEN front ELSE Append(front, last)

\* line 157
unique_urls(column) == unique(dropna(column))

Min(a, b) == IF a < b THEN a ELSE b

total == Len(urls)

\* a slice that ends one element early: urls[i : i + chunk_size - 1]
chunk_urls_short == SubSeq(urls, i + 1, Min(i + chunk_size - 1, total))

\* line 91: urls[i : i + chunk_size]
chunk_urls == SubSeq(urls, i + 1, Min(i + chunk_size, total))

\* results taken in another order than the tasks': last task first
batch_results_reversed ==
    [k \in DOMAIN tasks |-> tasks[Len(tasks) + 1 - k].result[1]]

\* line 99: gather returns the results in the order of the tasks
batch_results == [k \in DOMAIN tasks |-> tasks[k].result[1]]

\* a counter of every result that is not a 200
RECURSIVE count_non200(_)
count_non200(rs) ==
    IF rs = <<>> THEN 0
    ELSE (IF Head(rs).code /= 200 THEN 1 ELSE 0) + count_non200(Tail(rs))

RECURSIVE count410(_)
count410(rs) ==
    IF rs = <<>> THEN 0
    ELSE (IF Head(rs).code = 410 THEN 1 ELSE 0) + count410(Tail(rs))

\* an alert feed that also shows the 404s
RECURSIVE only410_or404(_)
only410_or404(rs) ==
    IF rs = <<>> THEN <<>>
    ELSE (IF Head(rs).code \in {410, 404} THEN <<Head(rs).url>> ELSE <<>>)
         \o only410_or404(Tail(rs))

RECURSIVE only410(_)
only410(rs) ==
    IF rs = <<>> THEN <<>>
    ELSE (IF Head(rs).code = 410 THEN <<Head(rs).url>> ELSE <<>>) \o only410(Tail(rs))

\* a pause test that is always true
more_chunks_always == TRUE

\* line 123: i + chunk_size < total
more_chunks == i + chunk_size < total

\* lines 90-96: the next chunk's coroutines are created
StartChunk ==
    /\ pc = "loop"
    /\ i < total
    /\ tasks' = [k \in 1..Len(chunk_urls) |-> NewTask(chunk_urls[k])]
    /\ pc' = "gather"
    /\ UNCHANGED <<raw, urls, max_concurrency, semaphore, endpoint, i, results,
                   error_count_410, alerts, progress, pauses, metrics>>

\* lines 99-124: gather has every result; report 410s, extend, show progress
CollectChunk ==
    /\ pc = "gather"
    /\ \A t \in TaskIds : tasks[t].pc = "done"
    /\ \A t \in TaskIds : tasks[t].result /= <<>>
    /\ error_count_410' = error_count_410 + count410(batch_results)
    /\ alerts' = alerts \o only410(batch_results)
    /\ results' = results \o batch_results
    /\ progress' = Append(progress,
                          [current_count |-> Min(i + chunk_size, total),
                           total |-> total,
                           errors |-> error_count_410'])
    /\ tasks' = <<>>
    /\ i' = i + chunk_size
    /\ pc' = IF more_chunks THEN "pause" ELSE "loop"
    /\ UNCHANGED <<raw, urls, max_concurrency, semaphore, endpoint, pauses, metrics>>

\* line 124: the inter-chunk sleep ends
PauseDone ==
    /\ pc = "pause"
    /\ pauses' = pauses + 1
    /\ pc' = "loop"
    /\ UNCHANGED <<raw, urls, max_concurrency, semaphore, endpoint, i, tasks,
                   results, error_count_410, alerts, progress, metrics>>

\* line 126
Return ==
    /\ pc = "loop"
    /\ i >= total
    /\ pc' = "returned"
    /\ UNCHANGED <<raw, urls, max_concurrency, semaphore, endpoint, i, tasks,
                   results, error_count_410, alerts, progress, pauses, metrics>>

\* len(results_df[results_df['code'].isin(codes)])
metric(rs, codes) == Cardinality({k \in DOMAIN rs : rs[k].code \in codes})

\* len(results_df[~results_df['code'].isin(codes)])
metric_not(rs, codes) == Cardinality({k \in DOMAIN rs : rs[k].code \notin codes})

\* a last group that forgets the 408 of the fourth
other_excluded_no408 == {200, 404, 410, 504}

\* line 199: the codes the last group leaves out
other_excluded == {200, 404, 410, 504, 408}

\* lines 195-199: c1 .. c5
tallies(rs) ==
    <<metric(rs, {200}), metric(rs, {404}), metric(rs, {410}),
      metric(rs, {504, 408}), metric_not(rs, other_excluded)>>

\* lines 190-199: the dashboard of a run that returned records
ShowMetrics ==
    /\ pc = "returned"
    /\ results /= <<>>
    /\ metrics' = tallies(results)
    /\ pc' = "reported"
    /\ UNCHANGED <<raw, urls, max_concurrency, semaphore, endpoint, i, tasks,
                   results, error_count_410, alerts, progress, pauses>>

\* lines 190-195 and 220-221: a frame built from no record has no 'code'
\* column; the KeyError is caught and shown, no tally is computed
MetricsError ==
    /\ pc = "returned"
    /\ results = <<>>
    /\ pc' = "error"
    /\ UNCHANGED <<raw, urls, max_concurrency, semaphore, endpoint, i, tasks,
                   results, error_count_410, alerts, progress, pauses, metrics>>

RawColumns == UNION {[1..n -> ColumnValues] : n \in 0..MaxRaw}

\* lines 78-88 and 153-157
Init ==
    /\ raw \in RawColumns
    /\ urls = unique_urls(raw)
    /\ max_concurrency \in {1, MaxK}
    /\ semaphore = max_concurrency
    /\ endpoint = <<>>
    /\ pc = "loop"
    /\ i = 0
    /\ tasks = <<>>
    /\ results = <<>>
    /\ error_count_410 = 0
    /\ alerts = <<>>
    /\ progress = <<>>
    /\ pauses = 0
    /\ metrics = <<>>

Next ==
    \/ StartChunk
    \/ \E t \in TaskIds : RejectInvalid(t)
    \/ \E t \in TaskIds : Enter(t)
    \/ \E t \in TaskIds : Respond(t)
    \/ \E t \in TaskIds : Wake(t)
    \/ CollectChunk
    \/ PauseDone
    \/ Return
    \/ ShowMetrics
    \/ MetricsError

Spec == Init /\ [][Next]_vars

\* the event loop runs whatever is ready: a pending attempt ends at the latest
\* at its timeout, a sleep ends, a free slot is taken, a finished gather is
\* resumed
\* process_batch_smart on a column that needs no deduplication
InitDistinct == Init /\ urls = raw

FairSpec == InitDistinct /\ [][Next]_vars /\ WF_vars(Next)

-----------------------------------------------------------------------------
(* Tab 2: run_single, one check behind Semaphore(1).  The endpoint is a    *)
(* test double that answers the attempts from a fixed script.              *)

EndpointScripts == [1..retries -> Outcomes]

\* lines 226-233
InitSingle ==
    /\ raw = <<>>
    /\ \E url_input \in {u \in TextInputs : Truthy(u)} :
          /\ urls = <<url_input>>
          /\ tasks = <<NewTask(url_input)>>
    /\ max_concurrency = 1
    /\ semaphore = 1
    /\ endpoint \in EndpointScripts
    /\ pc = "run_single"
    /\ i = 0
    /\ results = <<>>
    /\ error_count_410 = 0
    /\ alerts = <<>>
    /\ progress = <<>>
    /\ pauses = 0
    /\ metrics = <<>>

\* lines 235-249: asyncio.run returns res and the page shows it
ShowSingle ==
    /\ pc = "run_single"
    /\ tasks[1].pc = "done"
    /\ tasks[1].result /= <<>>
    /\ results' = <<tasks[1].result[1]>>
    /\ pc' = "shown"
    /\ UNCHANGED <<raw, urls, max_concurrency, semaphore, endpoint, i, tasks,
                   error_count_410, alerts, progress, pauses, metrics>>

NextSingle ==
    \/ \E t \in TaskIds : RejectInvalid(t)
    \/ \E t \in TaskIds : Enter(t)
    \/ \E t \in TaskIds : Respond(t)
    \/ \E t \in TaskIds : Wake(t)
    \/ ShowSingle

SpecSingle == InitSingle /\ [][NextSingle]_vars

-----------------------------------------------------------------------------
(* Vocabulary of the properties.                                           *)

\* the checks between acquiring and releasing the semaphore
InFlight == {t \in TaskIds : tasks[t].pc \in {"request", "sleep"}}

\* the checks that have finished
Finished == {t \in TaskIds : tasks[t].pc = "done"}

\* every record returned so far by a check
Returned ==
    Elems(results) \cup
    {tasks[t].result[1] : t \in {f \in Finished : tasks[f].result /= <<>>}}

\* the tag a status string stands for
Tag(status) ==
    CASE status.icon = "green" -> "ok"
      [] status.icon = "red" -> "not-found"
      [] status.icon = "house" -> "gone"
      [] status.icon = "orange" -> "forbidden"
      [] status.icon = "fire" -> "server-error"
      [] status.icon = "white" -> "other"
      [] status.icon = "warning" -> "invalid-url"
      [] status.icon = "cross" /\ status.text = "Connection Error" -> "connection-error"
      [] status.icon = "cross" /\ status.text = "Error" -> "error"
      [] OTHER -> "unknown"

Tags(rs) == {Tag(r.status) : r \in rs}

-----------------------------------------------------------------------------
(* C1 *)

\* C1: in every state of a batch run the number of checks between acquiring
\* and releasing the semaphore (backoff sleeps included) is at most K.
C1_InFlightAtMostK == Cardinality(InFlight) <= max_concurrency

\* all K slots taken, one holder in a backoff sleep, another valid check waiting
C1_Witness ==
    /\ Cardinality(InFlight) = max_concurrency
    /\ \E t \in InFlight : tasks[t].pc = "sleep"
    /\ \E t \in TaskIds : tasks[t].pc = "new" /\ ~IsInvalidUrl(tasks[t].url)

-----------------------------------------------------------------------------
(* C2 *)

\* C2: when process_batch_smart has returned, the result list holds exactly
\* one record for each distinct URL of the deduplicated input: as many records
\* as distinct non-null values of the column, none missing, none twice.
C2_OneRecordPerUrl ==
    pc = "returned" =>
        /\ Len(results) = Cardinality(Elems(raw) \ {PyNone})
        /\ Len(results) = Cardinality(Elems(urls))
        /\ \A u \in Elems(urls) :
              Cardinality({k \in DOMAIN results : results[k].url = u}) = 1
        /\ \A k \in DOMAIN results : results[k].url \in Elems(urls)

\* a column with a repeated URL, checked with different outcomes
C2_Witness ==
    /\ pc = "returned"
    /\ Len(raw) = 3
    /\ PyNone \notin Elems(raw)
    /\ Len(urls) = 2
    /\ Len(results) = 2
    /\ results[1].code = 0
    /\ results[2].code = 200

-----------------------------------------------------------------------------
(* C3 *)

\* C3: check_http_status never raises and never finishes without a result:
\* whatever the attempts gave, a finished check has returned a record with
\* exactly the fields url, code, status and reason, for its own URL.
C3_AlwaysARecord ==
    \A t \in TaskIds :
        /\ tasks[t].pc /= "raised"
        /\ tasks[t].pc = "done" =>
              /\ tasks[t].result /= <<>>
              /\ DOMAIN tasks[t].result[1] = {"url", "code", "status", "reason"}
              /\ tasks[t].result[1].url = tasks[t].url

\* a check that was retried twice and then met an unexpected exception
C3_Witness ==
    \E t \in Finished :
        /\ tasks[t].requests = retries
        /\ tasks[t].result /= <<>>
        /\ Tag(tasks[t].result[1].status) = "error"

-----------------------------------------------------------------------------
(* C4 *)

\* C4: a slot is held exactly by the checks in flight, so every exit path has
\* released it: the free slots are K minus the checks in flight, and K
\* whenever the chunk has completed and when the batch has returned.
C4_SlotsReleased ==
    /\ semaphore = max_concurrency - Cardinality(InFlight)
    /\ (Finished = TaskIds \/ pc \in {"pause", "loop", "returned"}) =>
          semaphore = max_concurrency

\* a returned batch of two chunks whose checks left by the validation guard,
\* by the exhausted status retries and by the generic-error clause
C4_Witness ==
    /\ pc = "returned"
    /\ pauses = 1
    /\ semaphore = max_concurrency
    /\ \E r \in Elems(results) : r.code = 503
    /\ "invalid-url" \in Tags(Elems(results))
    /\ "error" \in Tags(Elems(results))

-----------------------------------------------------------------------------
(* C5 *)

\* the single check of Tab 2, for a URL that passes the guard of line 28
Check == tasks[1]
CheckIsValid == ~IsInvalidUrl(Check.url)

Answers503Twice200 == endpoint = <<Response(503), Response(503), Response(200)>>

\* C5: against an endpoint answering 503, 503, 200 the check makes exactly
\* three requests, sleeps longer before the second retry than before the
\* first, and returns code 200 with the ok tag.
C5_RetryTwiceThenOk ==
    (CheckIsValid /\ Answers503Twice200) =>
        /\ Check.requests <= 3
        /\ Check.pc = "done" =>
              /\ Check.requests = 3
              /\ Len(Check.slept) = 2
              /\ Check.slept[2] > Check.slept[1]
              /\ Check.result /= <<>>
              /\ Check.result[1].code = 200
              /\ Tag(Check.result[1].status) = "ok"

C5_Witness ==
    /\ CheckIsValid
    /\ Answers503Twice200
    /\ pc = "shown"
    /\ Check.requests = 3
    /\ results[1].code = 200

-----------------------------------------------------------------------------
(* C6 *)

Answers503Always == endpoint = [k \in 1..retries |-> Response(503)]

\* C6: against an endpoint answering 503 every time the check makes exactly
\* the retry cap of requests, never more, does not raise, and returns a
\* server-error record carrying code 503.
C6_Exhausted503 ==
    (CheckIsValid /\ Answers503Always) =>
        /\ Check.requests <= retries
        /\ Check.pc /= "raised"
        /\ Check.pc = "done" =>
              /\ Check.requests = retries
              /\ Check.result /= <<>>
              /\ Check.result[1].code = 503
              /\ Tag(Check.result[1].status) = "server-error"
              /\ Check.result[1].status.code = 503

C6_Witness ==
    /\ CheckIsValid
    /\ Answers503Always
    /\ pc = "shown"
    /\ Check.requests = retries
    /\ Tag(results[1].status) = "server-error"

-----------------------------------------------------------------------------
(* C7 *)

Definitive(o) == o.kind = "response" /\ o.code \notin {429, 503, 504}

\* C7: once an attempt has been answered by a status other than 429, 503 and
\* 504, no further request is issued and no backoff sleep follows: the check
\* returns the record of that status (in particular on the first attempt).
C7_DefinitiveIsTerminal ==
    CheckIsValid =>
        \A k \in 1..retries :
            (Definitive(endpoint[k]) /\ Check.requests >= k) =>
                /\ Check.requests = k
                /\ Len(Check.slept) = k - 1
                /\ Check.pc \in {"request", "done"}
                /\ Check.pc = "done" =>
                      /\ Check.result /= <<>>
                      /\ Check.result[1].code = endpoint[k].code

\* a 502 on the first attempt, returned after one request and no sleep
C7_Witness ==
    /\ CheckIsValid
    /\ endpoint[1] = Response(502)
    /\ pc = "shown"
    /\ Check.requests = 1
    /\ Check.slept = <<>>
    /\ results[1].code = 502

-----------------------------------------------------------------------------
(* C8 *)

DefinitiveTag(code) ==
    CASE code = 200 -> "ok"
      [] code = 404 -> "not-found"
      [] code = 410 -> "gone"
      [] code = 403 -> "forbidden"

\* C8: a valid URL whose endpoint answers 200, 404, 410 or 403 gets a record
\* with that code and the tag ok, not-found, gone or forbidden; the four tags
\* the code gives are pairwise distinct.
C8_DefinitiveTags ==
    /\ CheckIsValid =>
          \A k \in 1..retries :
              (/\ endpoint[k].kind = "response"
               /\ endpoint[k].code \in {200, 404, 410, 403}
               /\ Check.requests = k
               /\ Check.pc = "done") =>
                  /\ Check.result /= <<>>
                  /\ Check.result[1].code = endpoint[k].code
                  /\ Tag(Check.result[1].status) = DefinitiveTag(endpoint[k].code)
    /\ Cardinality({Tag(ResponseResult(Check.url, c, reason_phrase(c)).status) :
                       c \in {200, 404, 410, 403}}) = 4

\* a 403 answered to the retry that followed a 429
C8_Witness ==
    /\ CheckIsValid
    /\ endpoint[1] = Response(429)
    /\ endpoint[2] = Response(403)
    /\ pc = "shown"
    /\ results[1].code = 403
    /\ Tag(results[1].status) = "forbidden"

-----------------------------------------------------------------------------
(* C9 *)

\* the classification table of the specification
SpecTableTag(code) ==
    CASE code \in {200, 206} -> "ok"
      [] code = 404 -> "not-found"
      [] code = 410 -> "gone"
      [] code = 403 -> "forbidden"
      [] code = 429 -> "rate-limited"
      [] code >= 500 -> "server-error"
      [] OTHER -> "other"

\* the same table with 206 and 429 among the remaining statuses
CodeTableTag(code) ==
    CASE code = 200 -> "ok"
      [] code = 404 -> "not-found"
      [] code = 410 -> "gone"
      [] code = 403 -> "forbidden"
      [] code >= 500 -> "server-error"
      [] OTHER -> "other"

\* C9 as stated: every record of an HTTP status carries the tag of the
\* specification's table (206 as ok, a final 429 as rate-limited).
C9_AsStated ==
    \A r \in Returned :
        r.code /= 0 =>
            /\ Tag(r.status) = SpecTableTag(r.code)
            /\ Tag(r.status) \in {"server-error", "other"} => r.status.code = r.code

\* C9 amended: every record of an HTTP status carries exactly one tag: ok for
\* 200, not-found, gone, forbidden for 404, 410, 403, server-error with the
\* code retained for every status >= 500, and other with the code retained
\* for every remaining status, 206 and a final 429 included.
C9_Classification ==
    \A r \in Returned :
        r.code /= 0 =>
            /\ r.code \in Statuses
            /\ Tag(r.status) = CodeTableTag(r.code)
            /\ Tag(r.status) \in {"server-error", "other"} => r.status.code = r.code

\* a batch that returned a 206 and a 429 that outlasted the retries
C9_Witness ==
    /\ \E r \in Returned : r.code = 206 /\ Tag(r.status) = "other"
    /\ \E t \in Finished :
          /\ tasks[t].requests = retries
          /\ tasks[t].result /= <<>>
          /\ tasks[t].result[1].code = 429
          /\ Tag(tasks[t].result[1].status) = "other"

-----------------------------------------------------------------------------
(* C10 *)

\* C10 as stated: a record with code 0 is tagged invalid-url,
\* connection-error or timeout.
C10_AsStated ==
    \A r \in Returned :
        r.code = 0 => Tag(r.status) \in {"invalid-url", "connection-error", "timeout"}

\* C10 amended: a record with code 0 is tagged invalid-url, connection-error,
\* timeout or error (the tag of an exception that is no transport fault);
\* it never carries the tag of a classified HTTP status.
C10_CodeZeroTags ==
    \A r \in Returned :
        r.code = 0 =>
            Tag(r.status) \in {"invalid-url", "connection-error", "timeout", "error"}

\* a batch that returned all three kinds of code-0 records
C10_Witness ==
    /\ \E r \in Returned : r.code = 0 /\ Tag(r.status) = "invalid-url"
    /\ \E r \in Returned : r.code = 0 /\ Tag(r.status) = "connection-error"
    /\ \E r \in Returned : r.code = 0 /\ Tag(r.status) = "error"

-----------------------------------------------------------------------------
(* C11 *)

\* a value that is empty, null, not text, or text without the prefix "http"
Malformed(u) ==
    \/ u.t /= "str"
    \/ Len(u.s) < 4
    \/ <<u.s[1], u.s[2], u.s[3], u.s[4]>> /= <<"h", "t", "t", "p">>

\* C11: a check of an empty, null, non-textual or prefix-less URL issues no
\* request and never holds a slot (the free slots are K minus the in-flight
\* checks of the other URLs), and it returns code 0 tagged invalid-url.
C11_MalformedIsLocal ==
    /\ semaphore = max_concurrency
                   - Cardinality({t \in InFlight : ~Malformed(tasks[t].url)})
    /\ \A t \in TaskIds :
          Malformed(tasks[t].url) =>
              /\ tasks[t].requests = 0
              /\ tasks[t].slept = <<>>
              /\ tasks[t].pc \in {"new", "done"}
              /\ tasks[t].pc = "done" =>
                    /\ tasks[t].result /= <<>>
                    /\ tasks[t].result[1].code = 0
                    /\ Tag(tasks[t].result[1].status) = "invalid-url"

\* a malformed URL rejected while every slot is held by another check
C11_Witness ==
    /\ semaphore = 0
    /\ \E t \in TaskIds :
          /\ Malformed(tasks[t].url)
          /\ tasks[t].pc = "done"
          /\ Tag(tasks[t].result[1].status) = "invalid-url"
    /\ \E t \in InFlight : tasks[t].pc = "sleep"

-----------------------------------------------------------------------------
(* C12 *)

HasPrefix(s, prefix) == Len(s) >= Len(prefix) /\ SubSeq(s, 1, Len(prefix)) = prefix

\* the validator of the specification: text that, once trimmed, begins with
\* "http://" or "https://"
TrimmedSchemeUrl(u) ==
    /\ u.t = "str"
    /\ u.s /= <<>>
    /\ \/ HasPrefix(strip(u.s), <<"h", "t", "t", "p", ":", "/", "/">>)
       \/ HasPrefix(strip(u.s), <<"h", "t", "t", "p", "s", ":", "/", "/">>)

\* C12 as stated: a finished check is an invalid-url record exactly when the
\* value is not a trimmed http:// or https:// URL, and is checked otherwise.
C12_AsStated ==
    (Check.pc = "done" /\ Check.result /= <<>>) =>
        /\ Tag(Check.result[1].status) = "invalid-url" <=> ~TrimmedSchemeUrl(Check.url)
        /\ TrimmedSchemeUrl(Check.url) => Check.requests >= 1

\* C12 amended: a finished check is an invalid-url record exactly when the
\* value is not a string whose first four characters, untrimmed, are "http";
\* every other value has been requested at least once.
C12_PrefixHttp ==
    (Check.pc = "done" /\ Check.result /= <<>>) =>
        /\ Tag(Check.result[1].status) = "invalid-url" <=> Malformed(Check.url)
        /\ Malformed(Check.url) => Check.requests = 0
        /\ ~Malformed(Check.url) => Check.requests >= 1

\* "httpx" passes the guard and is requested
C12_Witness ==
    /\ Check.url = UrlHttpx
    /\ pc = "shown"
    /\ Check.requests >= 1
    /\ Tag(results[1].status) /= "invalid-url"

-----------------------------------------------------------------------------
(* C13 *)

TransportFaults == {TimeoutFault, ClientFault}

AnswersOnly(faults) == \A k \in 1..retries : endpoint[k] \in faults

\* C13 as stated: a check whose every attempt ends in a transport fault makes
\* exactly the retry cap of requests and returns code 0, tagged timeout when
\* the faults were timeouts and connection-error when they were connection
\* failures.
C13_AsStated ==
    (CheckIsValid /\ AnswersOnly(TransportFaults) /\ Check.pc = "done") =>
        /\ Check.requests = retries
        /\ Check.result /= <<>>
        /\ Check.result[1].code = 0
        /\ AnswersOnly({TimeoutFault}) => Tag(Check.result[1].status) = "timeout"
        /\ AnswersOnly({ClientFault}) =>
              Tag(Check.result[1].status) = "connection-error"

\* C13 amended: such a check makes exactly the retry cap of requests, does not
\* raise, and returns code 0 tagged connection-error for timeouts and for
\* connection failures alike; only the reason text, the message of the last
\* fault, tells the two kinds apart.
C13_FaultsExhausted ==
    (CheckIsValid /\ AnswersOnly(TransportFaults)) =>
        /\ Check.requests <= retries
        /\ Check.pc /= "raised"
        /\ Check.pc = "done" =>
              /\ Check.requests = retries
              /\ Check.result /= <<>>
              /\ Check.result[1].code = 0
              /\ Tag(Check.result[1].status) = "connection-error"
              /\ Check.result[1].reason = endpoint[retries].reason

\* three timeouts in a row, reported as a connection error
C13_Witness ==
    /\ CheckIsValid
    /\ AnswersOnly({TimeoutFault})
    /\ pc = "shown"
    /\ Check.requests = retries
    /\ Tag(results[1].status) = "connection-error"
    /\ results[1].reason = TimeoutFault.reason

-----------------------------------------------------------------------------
(* C14 *)

\* base_delay of the backoff, in seconds
base_delay == 2

\* C14 as stated: the sleep before retry n lasts n * base_delay, whatever
\* caused the retry.
C14_AsStated ==
    CheckIsValid =>
        \A n \in 1..Len(Check.slept) : Check.slept[n] = n * base_delay

\* C14 amended: the sleep before retry n lasts n * base_delay when attempt n
\* was answered 429, 503 or 504, and base_delay, whatever n, when attempt n
\* ended in a transport timeout or connection fault.
C14_BackoffByCause ==
    CheckIsValid =>
        /\ Len(Check.slept) <= retries - 1
        /\ \A n \in 1..Len(Check.slept) :
              Check.slept[n] = IF endpoint[n].kind = "response"
                               THEN n * base_delay
                               ELSE base_delay

\* a 503 and then a timeout: both retries sleep 2 seconds
C14_Witness ==
    /\ CheckIsValid
    /\ endpoint[1] = Response(503)
    /\ endpoint[2] = TimeoutFault
    /\ Check.slept = <<2, 2>>
    /\ Check.pc = "done"

-----------------------------------------------------------------------------
(* C15 *)

\* chunks collected so far: one progress update each
ChunksCollected == Len(progress)

\* number of chunks of the input
NumChunks == (total + chunk_size - 1) \div chunk_size

\* C15: the URLs are taken in input order in consecutive chunks of at most
\* chunk_size; checks exist only while their chunk is gathered, and then every
\* record of the earlier chunks has been collected; one pause has been taken
\* per earlier chunk, and none follows the last chunk.
C15_ChunksInSequence ==
    /\ pc = "gather" =>
          /\ i = ChunksCollected * chunk_size
          /\ i < total
          /\ Len(results) = i
          /\ pauses = ChunksCollected
          /\ Len(tasks) \in 1..chunk_size
          /\ [k \in DOMAIN tasks |-> tasks[k].url]
                = SubSeq(urls, i + 1, Min(i + chunk_size, total))
    /\ pc /= "gather" => tasks = <<>>
    /\ pc = "pause" => pauses = ChunksCollected - 1 /\ Len(results) < total
    /\ pc = "returned" =>
          /\ Len(results) = total
          /\ ChunksCollected = NumChunks
          /\ pauses = IF total = 0 THEN 0 ELSE NumChunks - 1

\* the second chunk is being checked after one pause
C15_Witness ==
    /\ pc = "gather"
    /\ ChunksCollected = 1
    /\ pauses = 1
    /\ \E t \in TaskIds : tasks[t].pc = "request"

-----------------------------------------------------------------------------
(* C16 *)

LastProgress == progress[Len(progress)]

Collected(codes) == Cardinality({k \in DOMAIN results : results[k].code \in codes})

\* C16 as stated: each progress update reports the records collected so far,
\* the number of input URLs, and the collected records whose code is not 200.
C16_AsStated ==
    progress /= <<>> =>
        /\ LastProgress.current_count = Len(results)
        /\ LastProgress.total = Len(urls)
        /\ LastProgress.errors = Len(results) - Collected({200})

\* C16 amended: each progress update reports the records collected so far,
\* the number of input URLs, and the collected records whose code is 410.
C16_ProgressCounts ==
    progress /= <<>> =>
        /\ LastProgress.current_count = Len(results)
        /\ LastProgress.total = Len(urls)
        /\ LastProgress.errors = Collected({410})
        /\ LastProgress.errors = error_count_410

\* the second update of a run that collected a 410 and a 404
C16_Witness ==
    /\ Len(progress) = 2
    /\ LastProgress.current_count = 3
    /\ LastProgress.errors = 1
    /\ Collected({404}) = 1

-----------------------------------------------------------------------------
(* C17 *)

\* how often the URL was written to the alert feed
Alerted(u) == Cardinality({k \in DOMAIN alerts : alerts[k] = u})

CollectedWith(u, codes) == \E r \in Elems(results) : r.url = u /\ r.code \in codes

\* C17 as stated: as soon as its chunk is collected, and so before the batch
\* returns, every record whose code is not 200 is in the alert feed exactly
\* once, and no other URL is.
C17_AsStated ==
    \A u \in Elems(urls) :
        Alerted(u) = IF CollectedWith(u, (Statuses \cup {0}) \ {200}) THEN 1 ELSE 0

\* C17 amended: as soon as its chunk is collected, and so before the batch
\* returns, every record whose code is 410 is in the alert feed exactly once;
\* a record with any other code (200, 404, 403, 5xx, 0, ...) never is.
C17_AlertsAre410 ==
    /\ \A u \in Elems(urls) :
          Alerted(u) = IF CollectedWith(u, {410}) THEN 1 ELSE 0
    /\ Len(alerts) = error_count_410
    /\ \A k \in DOMAIN alerts : alerts[k] \in Elems(urls)

\* between two chunks: the 410 of the first chunk is shown, its 404 is not
C17_Witness ==
    /\ pc = "pause"
    /\ Len(alerts) = 1
    /\ CollectedWith(alerts[1], {410})
    /\ \E r \in Elems(results) : r.code = 404 /\ Alerted(r.url) = 0

-----------------------------------------------------------------------------
(* C18 *)

RECURSIVE Sum(_)
Sum(s) == IF s = <<>> THEN 0 ELSE Head(s) + Sum(Tail(s))

\* the group of the dashboard a code belongs to
TallyGroup(code) ==
    CASE code = 200 -> 1
      [] code = 404 -> 2
      [] code = 410 -> 3
      [] code \in {504, 408} -> 4
      [] OTHER -> 5

-----------------------------------------------------------------------------
(* C19 *)

AtMostRetriesRequests == \A t \in TaskIds : tasks[t].requests <= retries

BatchReturned == pc = "returned"

\* C19: when every pending attempt, sleep and slot hand-over eventually takes
\* place, every batch run returns its result list, and no check ever makes
\* more than 3 requests, whatever statuses and faults it meets.
C19_BatchReturns == []AtMostRetriesRequests /\ <>BatchReturned

\* a returned two-chunk batch with one slot: the two checks of the first
\* chunk took turns, and one of them used all three attempts
C19_Witness ==
    /\ pc = "returned"
    /\ max_concurrency = 1
    /\ pauses = 1
    /\ Len(results) = 3
    /\ results[1].code = 504
    /\ results[2].code = 200

-----------------------------------------------------------------------------
(* C20 *)

\* C20: the result list is in input order: the record at index k is the
\* record of the k-th input URL, at every moment of the run and at return,
\* whatever the order in which the checks of a chunk finished.
C20_InputOrder ==
    /\ Len(results) <= Len(urls)
    /\ \A k \in DOMAIN results : results[k].url = urls[k]
    /\ pc \in {"returned", "reported"} => Len(results) = Len(urls)

\* a returned batch whose second URL was rejected at once while the first
\* needed all three attempts
C20_Witness ==
    /\ pc = "returned"
    /\ Len(results) = 3
    /\ results[1].code = 503
    /\ Tag(results[2].status) = "invalid-url"
    /\ results[3].code = 200

====
